---------------------------- MODULE Spec2Model ----------------------------
(***************************************************************************)
(* Model of src/app.c (pico-flashloader demo application): an Intel HEX    *)
(* file is read line by line from the UART, assembled in flashbuf, stored  *)
(* in flash behind a tFlashHeader and handed to the flashloader through    *)
(* the watchdog scratch registers.                                         *)
(*                                                                         *)
(* Representation.  TLC integers are 32-bit signed, so a uint32_t is a     *)
(* tuple of four bytes, least significant first (the Cortex-M0+ is little  *)
(* endian, so this is also the word's image in memory and in flash).       *)
(* Characters are their ASCII codes; a line is the sequence of characters  *)
(* before the terminating NUL that getLine stores.                         *)
(***************************************************************************)
EXTENDS Integers, Sequences, FiniteSets, TLC

(***************************************************************************)
(* Bit operations on naturals.                                             *)
(***************************************************************************)
RECURSIVE BitXor(_, _)
BitXor(a, b) ==
    IF a = 0 THEN b
    ELSE IF b = 0 THEN a
    ELSE (((a % 2) + (b % 2)) % 2) + 2 * BitXor(a \div 2, b \div 2)

RECURSIVE BitOr(_, _)
BitOr(a, b) ==
    IF a = 0 THEN b
    ELSE IF b = 0 THEN a
    ELSE (IF (a % 2) + (b % 2) > 0 THEN 1 ELSE 0) + 2 * BitOr(a \div 2, b \div 2)

RECURSIVE BitAnd(_, _)
BitAnd(a, b) ==
    IF a = 0 \/ b = 0 THEN 0
    ELSE ((a % 2) * (b % 2)) + 2 * BitAnd(a \div 2, b \div 2)

\* A uint32_t given by its value (below 2^31) as four bytes, LSB first.
Word32(n) ==
    << n % 256, (n \div 256) % 256, (n \div 65536) % 256, (n \div 16777216) % 256 >>

WordXor(v, w) ==
    << BitXor(v[1], w[1]), BitXor(v[2], w[2]), BitXor(v[3], w[3]), BitXor(v[4], w[4]) >>

\* (w << 1) truncated to 32 bits.
WordShl1(w) ==
    << (w[1] * 2) % 256,
       ((w[2] * 2) % 256) + (w[1] \div 128),
       ((w[3] * 2) % 256) + (w[2] \div 128),
       ((w[4] * 2) % 256) + (w[3] \div 128) >>

(***************************************************************************)
(* Program constants.                                                      *)
(***************************************************************************)
TYPE_DATA == 0
TYPE_EOF == 1
TYPE_EXTSEG == 2
TYPE_STARTSEG == 3
TYPE_EXTLIN == 4
TYPE_STARTLIN == 5

\* sizeof(data) in processRecord: uint8_t data[256 + 5]
DATA_SIZE == 261

\* 0x04C11DB7
CRC_POLY == << 183, 29, 193, 4 >>

\* 0xffffffff, the seed flashImage passes to crc32
CRC_SEED == << 255, 255, 255, 255 >>

(***************************************************************************)
(* crc32: per byte, crc ^= byte << 24, then eight rounds of shift and      *)
(* conditional XOR with the polynomial.                                    *)
(***************************************************************************)
crcRoundTestsLowBit(c) ==
    IF c[1] % 2 = 1 THEN WordXor(WordShl1(c), CRC_POLY) ELSE WordShl1(c)

\* One round: crc = (crc & 0x80000000) ? (crc << 1) ^ 0x04C11DB7 : crc << 1
crcRound(c) == IF c[4] >= 128 THEN WordXor(WordShl1(c), CRC_POLY) ELSE WordShl1(c)

\* The rounds bit .. 7.  The running value is bound before it is used, so
\* that each round is computed once.
RECURSIVE crcRounds(_, _)
crcRounds(crc, bit) ==
    IF bit = 8 THEN crc
    ELSE CHOOSE r \in { crcRounds(crcRound(c), bit + 1) : c \in {crc} } : TRUE

RECURSIVE crc32(_, _, _)
crc32(data, len, crc) ==
    IF len = 0 THEN crc
    ELSE CHOOSE r \in { crc32(Tail(data), len - 1,
                               crcRounds([c EXCEPT ![4] = BitXor(c[4], Head(data))], 0)) :
                         c \in {crc} } : TRUE

(***************************************************************************)
(* hex2nibble, parseHex.  A result is [success, value].                    *)
(***************************************************************************)
hex2nibbleNoOffset(c, value) ==
    IF c >= 48 /\ c <= 57
    THEN [success |-> 1, value |-> BitOr((value * 16) % 256, c - 48)]
    ELSE LET lc == BitOr(c, 32) IN
         IF lc >= 97 /\ lc <= 122
         THEN [success |-> 1, value |-> BitOr((value * 16) % 256, lc - 97) % 256]
         ELSE [success |-> 0, value |-> value]

hex2nibble(c, value) ==
    IF c >= 48 /\ c <= 57                                  \* '0' .. '9'
    THEN [success |-> 1, value |-> BitOr((value * 16) % 256, c - 48)]
    ELSE LET lc == BitOr(c, 32) IN                         \* c |= 32
         IF lc >= 97 /\ lc <= 122                          \* 'a' .. 'z'
         THEN [success |-> 1,
               value |-> BitOr((value * 16) % 256, ((lc - 97) % 256) + 10) % 256]
         ELSE [success |-> 0, value |-> value]

\* The character at 1-based position p of the NUL-terminated string.
CharAt(str, p) == IF p <= Len(str) THEN str[p] ELSE 0

parseHex(str, p) ==
    LET hi == hex2nibble(CharAt(str, p), 0) IN
    IF hi.success = 0 THEN hi
    ELSE hex2nibble(CharAt(str, p + 1), hi.value)

(***************************************************************************)
(* processRecord.  `stack' is what the uninitialised array data[] holds on *)
(* entry: the bytes the decode loop does not overwrite are read as they    *)
(* are.  `record' is the caller's tRecord, written only on success.  The   *)
(* result carries success, the tRecord afterwards and the number of bytes  *)
(* decoded (the local variable offset).                                    *)
(***************************************************************************)
\* while(*line && (*line != ':')) line++;  the scan stops at the least position
\* in lo..hi that holds NUL or ':' (hi + 1 when there is none)
RECURSIVE ScanStop(_, _, _)
ScanStop(str, lo, hi) ==
    IF lo > hi THEN lo
    ELSE IF lo = hi
         THEN (IF CharAt(str, lo) = 0 \/ CharAt(str, lo) = 58 THEN lo ELSE lo + 1)
    ELSE LET mid == (lo + hi) \div 2
             l   == ScanStop(str, lo, mid)
         IN  IF l <= mid THEN l ELSE ScanStop(str, mid + 1, hi)

SkipToColon(str) == ScanStop(str, 1, Len(str) + 1)

\* while(parseHex(line, &value) && (offset < sizeof(data))): the loop stops at
\* the least k in lo..hi for which the pair at p + 2k is no hex pair (hi + 1
\* when there is none)
RECURSIVE DecodeStop(_, _, _, _)
DecodeStop(str, p, lo, hi) ==
    IF lo > hi THEN lo
    ELSE IF lo = hi
         THEN (IF parseHex(str, p + 2 * lo).success = 0 THEN lo ELSE lo + 1)
    ELSE LET mid == (lo + hi) \div 2
             l   == DecodeStop(str, p, lo, mid)
         IN  IF l <= mid THEN l ELSE DecodeStop(str, p, mid + 1, hi)

DecodeCountUnbounded(str, p) == DecodeStop(str, p, 0, 1023)

\* The final offset: the pairs decoded, sizeof(data) at most.
DecodeCount(str, p) == DecodeStop(str, p, 0, DATA_SIZE - 1)

\* data[offset++] = value: the bytes the loop stored
DecodeLoop(str, p) ==
    [k \in 1..DecodeCount(str, p) |-> parseHex(str, p + 2 * (k - 1)).value]

\* checksum += value, for the bytes lo..hi of s, in a uint8_t
RECURSIVE SumRange(_, _, _)
SumRange(s, lo, hi) ==
    IF lo > hi THEN 0
    ELSE IF lo = hi THEN s[lo]
    ELSE LET mid == (lo + hi) \div 2 IN
         (SumRange(s, lo, mid) + SumRange(s, mid + 1, hi)) % 256

SumBytes(s) == SumRange(s, 1, Len(s))

MakeAddrSwapped(hi, lo) == BitOr(hi, lo * 256)

\* record->addr = data[2] | (data[1] << 8)
MakeAddr(hi, lo) == BitOr(lo, hi * 256)

EmptyRec == [count |-> 0, addr |-> 0, type |-> 0, data |-> << >>]

processRecord(ln, stack, record) ==
    LET p       == SkipToColon(ln)
        decoded == IF CharAt(ln, p) = 58 THEN DecodeLoop(ln, p + 1) ELSE << >>
        offset  == Len(decoded)
        data(i) == IF i < offset THEN decoded[i + 1] ELSE stack[i]
    IN  IF offset > 0 /\ SumBytes(decoded) = 0
        THEN [success |-> 1,
              offset  |-> offset,
              rec     |-> [count |-> data(0),
                           addr  |-> MakeAddr(data(1), data(2)),
                           type  |-> data(3),
                           data  |-> [i \in 1..data(0) |-> data(3 + i)]]]
        ELSE [success |-> 0, offset |-> offset, rec |-> record]

(***************************************************************************)
(* The transfer encoding, as the sender produces it: ':' then the hex of   *)
(* count, address (big endian), type, payload and the two's-complement     *)
(* checksum of those bytes.                                                *)
(***************************************************************************)
HexChar(n, upper) == IF n < 10 THEN 48 + n ELSE (IF upper THEN 65 ELSE 97) + (n - 10)

HexBytes(bytes, upper) ==
    [i \in 1..(2 * Len(bytes)) |->
        IF i % 2 = 1 THEN HexChar(bytes[(i + 1) \div 2] \div 16, upper)
                     ELSE HexChar(bytes[i \div 2] % 16, upper)]

FieldBytes(count, addr, type, payload) ==
    << count, addr \div 256, addr % 256, type >> \o payload

Checksum(bytes) == (256 - SumBytes(bytes)) % 256

EncodeRecord(count, addr, type, payload, upper) ==
    LET f == FieldBytes(count, addr, type, payload) IN
    << 58 >> \o HexBytes(Append(f, Checksum(f)), upper)

(***************************************************************************)
(* Bounds of the model.  BufCap stands for the 65536 bytes of              *)
(* flashbuf.header.data, SectorSize for the 4096-byte erase sector and     *)
(* PageSize for the 256-byte program page; the input lines below keep      *)
(* every count below BufCap, as 255 is below 65536.                        *)
(***************************************************************************)
BufCap == 4
SectorSize == 8
PageSize == 4
MaxRecords == 3

\* sizeof(tFlashHeader): magic1, magic2, length, crc32
HeaderSize == 16

\* 0x8ecd5efb and 0xc5ae52a9
FLASH_MAGIC1 == << 251, 94, 205, 142 >>
FLASH_MAGIC2 == << 169, 82, 174, 197 >>

\* XIP_BASE + FLASH_IMAGE_OFFSET = 0x10000000 + 128 * 1024
IMAGE_ADDRESS == Word32(268435456 + 128 * 1024)

VARIABLES
    pc,        \* where the main path is: "loop", a step of flashImage, "reset";
               \* "parse" and "parsed" around processRecord taken on its own
    line,      \* the line getLine returned last
    success,   \* what processRecord returned for it
    decoded,   \* the number of bytes its decode loop stored
    rec,       \* the tRecord it filled
    sent,      \* history: how the sender built the line
    offset,    \* readIntelHex: the cursor
    count,     \* readIntelHex: accepted records
    buffer,    \* flashbuf.header.data[0 .. BufCap-1]
    oob,       \* memory behind flashbuf that a memcpy has written: <<index, byte>>
    hdr,       \* flashbuf.header: magic1, magic2, length, crc32
    length,    \* flashImage: the parameter length
    irq,       \* interrupts enabled
    led,       \* the LED pin
    flash,     \* the flash region at FLASH_IMAGE_OFFSET, byte by byte
    nerased,   \* bytes flash_range_erase has erased so far
    nprog,     \* bytes flash_range_program has programmed so far
    scratch,   \* watchdog_hw->scratch[0], scratch[1]
    dlog,      \* history: the DATA records accepted since the cursor was last 0
    nstaged,   \* history: the number of calls of flashImage
    crcArgs,   \* crc32 taken on its own: the arguments data, len, crc
    crcOut     \* ... and the value returned, << >> before the call

vars == << pc, line, success, decoded, rec, sent, offset, count, buffer, oob, hdr, length,
           irq, led, flash, nerased, nprog, scratch, dlog, nstaged, crcArgs, crcOut >>

parseVars == << line, success, decoded, rec, sent >>
asmVars == << offset, count, buffer, oob, dlog >>
stageVars == << hdr, length, flash, nerased, nprog, scratch, nstaged >>
crcVars == << crcArgs, crcOut >>

ZeroWord == Word32(0)

\* The value of sent for a line that is no encoding of a record.
Unencoded == [kind |-> "raw"]

\* (totalLength + 4095) & 0xfffff000, for the model's sector size
EraseLength(totalLength) ==
    ((totalLength + (SectorSize - 1)) \div SectorSize) * SectorSize

RegionSize == EraseLength(HeaderSize + BufCap)

ErasedFlash == [i \in 0..(RegionSize - 1) |-> 255]

\* A region that still holds an image staged earlier: one byte, 0x5A.
OldFlash ==
    LET img == << 90 >>
        old == FLASH_MAGIC1 \o FLASH_MAGIC2 \o Word32(1) \o crc32(img, 1, CRC_SEED) \o img
    IN  [i \in 0..(RegionSize - 1) |-> IF i < Len(old) THEN old[i + 1] ELSE 255]

\* What data[] of processRecord holds on entry.
Stacks == { [i \in 0..(DATA_SIZE - 1) |-> g] : g \in {0, 1} }

InitRest ==
    /\ line = << >>
    /\ success = 0
    /\ decoded = 0
    /\ rec = EmptyRec
    /\ sent = Unencoded
    /\ offset = 0
    /\ count = 0
    /\ buffer = [i \in 0..(BufCap - 1) |-> 0]
    /\ oob = {}
    /\ hdr = [magic1 |-> ZeroWord, magic2 |-> ZeroWord, length |-> ZeroWord,
              crc32 |-> ZeroWord]
    /\ length = 0
    /\ irq = TRUE
    /\ led = FALSE
    /\ nerased = 0
    /\ nprog = 0
    /\ dlog = << >>
    /\ nstaged = 0

(***************************************************************************)
(* The input: the lines the UART delivers to readIntelHex.                 *)
(***************************************************************************)
LineData1  == EncodeRecord(1, 0, TYPE_DATA, << 17 >>, TRUE)
LineData1b == EncodeRecord(1, 2, TYPE_DATA, << 34 >>, TRUE)
LineData2  == EncodeRecord(2, 1, TYPE_DATA, << 51, 68 >>, FALSE)
\* ":0300300002337A1E": count 03, address 0030, type 00, data 02 33 7A, sum 1E
LineData3 ==
    << 58, 48, 51, 48, 48, 51, 48, 48, 48, 48, 50, 51, 51, 55, 65, 49, 69 >>
LineEof    == EncodeRecord(0, 0, TYPE_EOF, << >>, TRUE)
LineExtLin == EncodeRecord(2, 0, TYPE_EXTLIN, << 16, 0 >>, TRUE)
LineExtSeg == EncodeRecord(3, 48, TYPE_EXTSEG, << 2, 51, 122 >>, TRUE)
LineOther  == EncodeRecord(1, 0, 6, << 9 >>, TRUE)

\* A record whose checksum byte is the right one plus one.
EncodeBadSum(cnt, addr, type, payload) ==
    LET f == FieldBytes(cnt, addr, type, payload) IN
    << 58 >> \o HexBytes(Append(f, (Checksum(f) + 1) % 256), TRUE)

LineBadSum == EncodeBadSum(1, 0, TYPE_DATA, << 17 >>)

\* ":00": one decoded byte, its sum zero
LineShort == << 58, 48, 48 >>

PipeLines ==
    { LineData1, LineData1b, LineData2, LineData3, LineEof, LineExtLin, LineExtSeg,
      LineOther, LineBadSum, LineShort }

(***************************************************************************)
(* readIntelHex: one iteration of its loop.                                *)
(***************************************************************************)
AcceptedAlways(r) == TRUE

\* if(processRecord(getLine(line), &rec))
Accepted(r) == r.success # 0

MemcpyAtAddr(buf, at, r) ==
    [i \in 0..(BufCap - 1) |->
        IF i >= r.addr /\ i < r.addr + r.count THEN r.data[(i - r.addr) + 1] ELSE buf[i]]

\* memcpy(&flashbuf.header.data[offset], rec.data, rec.count): the part that
\* lands in the buffer
MemcpyData(buf, at, r) ==
    [i \in 0..(BufCap - 1) |->
        IF i >= at /\ i < at + r.count THEN r.data[(i - at) + 1] ELSE buf[i]]

\* ... and the part that lands behind it
MemcpyBehind(at, r) ==
    { << i, r.data[(i - at) + 1] >> : i \in { j \in at..(at + r.count - 1) : j >= BufCap } }

\* offset += rec.count; offset %= 65536
AdvanceCursor(at, r) == (at + r.count) % BufCap

DoData(r) ==
    /\ buffer' = MemcpyData(buffer, offset, r)
    /\ oob' = { w \in oob : \A n \in MemcpyBehind(offset, r) : n[1] # w[1] }
              \cup MemcpyBehind(offset, r)
    /\ offset' = AdvanceCursor(offset, r)
    /\ dlog' = Append(dlog, [addr |-> r.addr, data |-> r.data, at |-> offset])
    /\ pc' = "loop"
    /\ UNCHANGED << length, nstaged >>

\* flashImage(&flashbuf.header, offset)
DoEof(r) ==
    /\ length' = offset
    /\ nstaged' = nstaged + 1
    /\ pc' = "fi_header"
    /\ UNCHANGED << buffer, oob, offset, dlog >>

DoExtLinKeepCursor(r) ==
    /\ pc' = "loop"
    /\ UNCHANGED << buffer, oob, offset, dlog, length, nstaged >>

\* case TYPE_EXTLIN: offset = 0
DoExtLin(r) ==
    /\ offset' = 0
    /\ dlog' = << >>
    /\ pc' = "loop"
    /\ UNCHANGED << buffer, oob, length, nstaged >>

DoIgnoreFallsThrough(r) == DoExtLin(r)

\* case TYPE_EXTSEG: case TYPE_STARTSEG: case TYPE_STARTLIN: break; default: break
DoIgnore(r) ==
    /\ pc' = "loop"
    /\ UNCHANGED << buffer, oob, offset, dlog, length, nstaged >>

\* The loop body for the line ln, data[] of processRecord holding stack.
TakeLine(ln, stack) ==
    LET r == processRecord(ln, stack, rec) IN
    /\ line' = ln
    /\ sent' = Unencoded
    /\ success' = r.success
    /\ decoded' = r.offset
    /\ rec' = r.rec
    /\ IF Accepted(r)
       THEN /\ count' = count + 1
            /\ CASE r.rec.type = TYPE_DATA -> DoData(r.rec)
                 [] r.rec.type = TYPE_EOF -> DoEof(r.rec)
                 [] r.rec.type = TYPE_EXTLIN -> DoExtLin(r.rec)
                 [] OTHER -> DoIgnore(r.rec)
       ELSE /\ pc' = "loop"
            /\ UNCHANGED << asmVars, length, nstaged >>
    /\ UNCHANGED << hdr, irq, led, flash, nerased, nprog, scratch >>
    /\ UNCHANGED crcVars

ReadRecord ==
    /\ pc = "loop"
    /\ count < MaxRecords
    /\ \E ln \in PipeLines, stack \in Stacks : TakeLine(ln, stack)

(***************************************************************************)
(* flashImage, step by step: an interrupt or a loss of power can fall      *)
(* between any two steps.  flash_range_erase erases sector by sector and   *)
(* flash_range_program programs page by page, both by ascending address.   *)
(***************************************************************************)
TotalLength == HeaderSize + length

\* Byte i of what flash_range_program is given: the header, then the data.
HeaderBytes(h) == h.magic1 \o h.magic2 \o h.length \o h.crc32

SrcByte(i) == IF i < HeaderSize THEN HeaderBytes(hdr)[i + 1] ELSE buffer[i - HeaderSize]

\* The first len bytes of the buffer, as a sequence.
Image(buf, len) == [i \in 1..len |-> buf[i - 1]]

HeaderSeedZero ==
    [magic1 |-> FLASH_MAGIC1, magic2 |-> FLASH_MAGIC2, length |-> Word32(length),
     crc32 |-> crc32(Image(buffer, length), length, ZeroWord)]

\* header->magic1 = ...; header->crc32 = crc32(header->data, length, 0xffffffff)
PopulatedHeader ==
    [magic1 |-> FLASH_MAGIC1, magic2 |-> FLASH_MAGIC2, length |-> Word32(length),
     crc32 |-> crc32(Image(buffer, length), length, CRC_SEED)]

FI_Header ==
    /\ pc = "fi_header"
    /\ hdr' = PopulatedHeader
    /\ pc' = "fi_disable"
    /\ UNCHANGED << parseVars, asmVars, length, irq, led, flash, nerased, nprog,
                    scratch, nstaged >>
    /\ UNCHANGED crcVars

FI_DisableIrqOmitted ==
    /\ pc = "fi_disable"
    /\ nerased' = 0
    /\ pc' = "fi_erase"
    /\ UNCHANGED << parseVars, asmVars, hdr, length, irq, led, flash, nprog, scratch,
                    nstaged >>
    /\ UNCHANGED crcVars

\* status = save_and_disable_interrupts()
FI_DisableIrq ==
    /\ pc = "fi_disable"
    /\ irq' = FALSE
    /\ nerased' = 0
    /\ pc' = "fi_erase"
    /\ UNCHANGED << parseVars, asmVars, hdr, length, led, flash, nprog, scratch,
                    nstaged >>
    /\ UNCHANGED crcVars

\* flash_range_erase(FLASH_IMAGE_OFFSET, eraseLength): the next sector
FI_Erase ==
    /\ pc = "fi_erase"
    /\ flash' = [i \in DOMAIN flash |->
                    IF i >= nerased /\ i < nerased + SectorSize THEN 255 ELSE flash[i]]
    /\ nerased' = nerased + SectorSize
    /\ nprog' = 0
    /\ pc' = IF nerased + SectorSize >= EraseLength(TotalLength)
             THEN "fi_program" ELSE "fi_erase"
    /\ UNCHANGED << parseVars, asmVars, hdr, length, irq, led, scratch, nstaged >>
    /\ UNCHANGED crcVars

PageStartDescending ==
    LET last == ((TotalLength - 1) \div PageSize) * PageSize IN last - nprog

\* The address, within the region, of the page programmed next.
PageStart == nprog

\* flash_range_program(FLASH_IMAGE_OFFSET, (uint8_t*)header, totalLength): the
\* next page; a programmed bit can only go from 1 to 0
FI_Program ==
    /\ pc = "fi_program"
    /\ flash' = [i \in DOMAIN flash |->
                    IF i >= PageStart /\ i < PageStart + PageSize /\ i < TotalLength
                    THEN BitAnd(flash[i], SrcByte(i)) ELSE flash[i]]
    /\ nprog' = IF nprog + PageSize >= TotalLength THEN TotalLength ELSE nprog + PageSize
    /\ pc' = IF nprog + PageSize >= TotalLength THEN "fi_restore" ELSE "fi_program"
    /\ UNCHANGED << parseVars, asmVars, hdr, length, irq, led, nerased, scratch,
                    nstaged >>
    /\ UNCHANGED crcVars

\* restore_interrupts(status)
FI_RestoreIrq ==
    /\ pc = "fi_restore"
    /\ irq' = TRUE
    /\ pc' = "fi_scratch0"
    /\ UNCHANGED << parseVars, asmVars, stageVars, led >>
    /\ UNCHANGED crcVars

\* watchdog_hw->scratch[0] = FLASH_MAGIC1
FI_Scratch0 ==
    /\ pc = "fi_scratch0"
    /\ scratch' = [scratch EXCEPT ![1] = FLASH_MAGIC1]
    /\ pc' = "fi_scratch1"
    /\ UNCHANGED << parseVars, asmVars, hdr, length, irq, led, flash, nerased, nprog,
                    nstaged >>
    /\ UNCHANGED crcVars

\* watchdog_hw->scratch[1] = XIP_BASE + FLASH_IMAGE_OFFSET
FI_Scratch1 ==
    /\ pc = "fi_scratch1"
    /\ scratch' = [scratch EXCEPT ![2] = IMAGE_ADDRESS]
    /\ pc' = "fi_reboot"
    /\ UNCHANGED << parseVars, asmVars, hdr, length, irq, led, flash, nerased, nprog,
                    nstaged >>
    /\ UNCHANGED crcVars

FI_RebootReturns ==
    /\ pc = "fi_reboot"
    /\ pc' = "loop"
    /\ UNCHANGED << parseVars, asmVars, stageVars, irq, led >>
    /\ UNCHANGED crcVars

\* watchdog_reboot(0, 0, 1000), then while(true) tight_loop_contents()
FI_Reboot ==
    /\ pc = "fi_reboot"
    /\ pc' = "fi_wait"
    /\ UNCHANGED << parseVars, asmVars, stageVars, irq, led >>
    /\ UNCHANGED crcVars

\* The watchdog fires while the main path spins.
WatchdogReset ==
    /\ pc = "fi_wait"
    /\ pc' = "reset"
    /\ UNCHANGED << parseVars, asmVars, stageVars, irq, led >>
    /\ UNCHANGED crcVars

TimerCallbackUnmasked ==
    /\ pc # "reset"
    /\ led' = ~led
    /\ UNCHANGED << pc, parseVars, asmVars, stageVars, irq >>
    /\ UNCHANGED crcVars

\* repeating_timer_callback: gpio_xor_mask(1 << PICO_DEFAULT_LED_PIN)
TimerCallback ==
    /\ irq
    /\ pc # "reset"
    /\ led' = ~led
    /\ UNCHANGED << pc, parseVars, asmVars, stageVars, irq >>
    /\ UNCHANGED crcVars

\* crc32 is not taken on its own.
NoCrcCall == crcArgs = [data |-> << >>, len |-> 0, seed |-> ZeroWord] /\ crcOut = << >>

Init ==
    /\ pc = "loop"
    /\ InitRest
    /\ NoCrcCall
    /\ flash \in { ErasedFlash, OldFlash }
    /\ scratch = << ZeroWord, ZeroWord >>

Next ==
    \/ ReadRecord
    \/ FI_Header
    \/ FI_DisableIrq
    \/ FI_Erase
    \/ FI_Program
    \/ FI_RestoreIrq
    \/ FI_Scratch0
    \/ FI_Scratch1
    \/ FI_Reboot
    \/ WatchdogReset
    \/ TimerCallback

Spec == Init /\ [][Next]_vars

(***************************************************************************)
(* The same program on a transfer that is rich in record types: data, end  *)
(* of file and records of the types readIntelHex has no use for, with      *)
(* counts from 0 to 255 and addresses from 0 to 0xFFFF.                    *)
(***************************************************************************)
LineStartSeg  == EncodeRecord(4, 0, TYPE_STARTSEG, << 0, 0, 1, 0 >>, TRUE)
LineStartLin  == EncodeRecord(4, 65535, TYPE_STARTLIN, << 16, 0, 1, 205 >>, FALSE)
LineType80    == EncodeRecord(255, 4660, 128, [i \in 1..255 |-> i], TRUE)
LineTypeFF    == EncodeRecord(0, 1, 255, << >>, TRUE)

TypeLines ==
    { LineData2, LineEof, LineExtSeg, LineStartSeg, LineStartLin, LineOther, LineType80,
      LineTypeFF }

ReadTyped ==
    /\ pc = "loop"
    /\ count < MaxRecords
    /\ \E ln \in TypeLines, stack \in Stacks : TakeLine(ln, stack)

NextTypes ==
    \/ ReadTyped
    \/ FI_Header
    \/ FI_DisableIrq
    \/ FI_Erase
    \/ FI_Program
    \/ FI_RestoreIrq
    \/ FI_Scratch0
    \/ FI_Scratch1
    \/ FI_Reboot
    \/ WatchdogReset
    \/ TimerCallback

SpecTypes == Init /\ [][NextTypes]_vars

(***************************************************************************)
(* Scheduling.  The main path is the only thread: once flashImage has been *)
(* entered it runs on whenever it can (the timer callback returns, erase   *)
(* and program return), and the watchdog armed by watchdog_reboot fires    *)
(* after its delay.  Nothing obliges the UART to deliver another line.     *)
(***************************************************************************)
StagePath ==
    \/ FI_Header
    \/ FI_DisableIrq
    \/ FI_Erase
    \/ FI_Program
    \/ FI_RestoreIrq
    \/ FI_Scratch0
    \/ FI_Scratch1
    \/ FI_Reboot

SpecFair == Spec /\ WF_vars(StagePath) /\ WF_vars(WatchdogReset)

(***************************************************************************)
(* processRecord on its own: the lines a sender can put on the UART, those *)
(* that encode a record and those that do not.                             *)
(***************************************************************************)
MaxPrefix == 2

Pattern(seed, step, n) == [i \in 1..n |-> (seed + (i - 1) * step) % 256]

ParseTuples ==
    { [count |-> c, addr |-> a, type |-> t, payload |-> Pattern(sd[1], sd[2], c)] :
        c \in {0, 1, 2, 16, 255},
        a \in {0, 4660, 65535},
        t \in {TYPE_DATA, TYPE_EOF, TYPE_EXTLIN, 255},
        sd \in { << 171, 37 >>, << 255, 1 >> } }

\* Text before the start marker: up to MaxPrefix characters, none of them ':'.
Prefixes == { SubSeq(<< 32, 65, 57, 9 >>, 1, n) : n \in 0..MaxPrefix }

\* A record of count 255 with 40 more pairs behind its checksum: 301 pairs,
\* of which the first 261 (FF 00 00 00, 255 times 00, 01, 00) sum to 0.
LineOverlong ==
    << 58 >> \o HexBytes(<< 255, 0, 0, 0 >> \o Pattern(0, 0, 255) \o << 1, 0 >>
                             \o Pattern(171, 0, 40), TRUE)

RawLines ==
    { << >>,                                                   \* empty line
      LineOverlong,
      << 104, 101, 108, 108, 111 >>,                           \* no start marker
      << 58 >>,                                                \* ":"
      LineShort,
      << 58 >> \o HexBytes(<< 1, 0, 255 >>, TRUE),             \* ":0100FF"
      << 58 >> \o HexBytes(<< 0, 0, 0, 0 >>, TRUE),            \* ":00000000"
      << 58 >> \o HexBytes(<< 2, 0, 0, 0, 0, 254 >>, TRUE),    \* ":0200000000FE"
      << 58 >> \o HexBytes(<< 0, 0, 0, 0 >>, TRUE) \o << 45, 45 >>,   \* ":00000000--"
      << 58 >> \o HexBytes(<< 0, 0, 0 >>, TRUE) \o << 48, 71, 70, 48 >>, \* ":0000000GF0"
      << 58 >> \o HexBytes(<< 0, 0, 0 >>, TRUE) \o << 32 >> \o HexBytes(<< 1, 255 >>, TRUE),
      << 58 >> \o HexBytes(<< 0, 0, 0 >>, TRUE) \o << 48 >>,   \* an odd number of digits
      LineEof \o << 32, 59, 101, 111, 102 >>,                  \* ":00000001FF ;eof"
      LineBadSum,
      EncodeBadSum(0, 0, TYPE_EOF, << >>),
      EncodeBadSum(2, 16, TYPE_DATA, << 1, 2 >>),
      << 58 >> \o HexBytes(Pattern(0, 0, 300), TRUE),          \* 300 bytes of 00
      << 58 >> \o HexBytes(Pattern(255, 0, 300), FALSE) }      \* 300 bytes of ff

ParseResult(ln, stack) ==
    LET r == processRecord(ln, stack, rec) IN
    /\ pc = "parse"
    /\ pc' = "parsed"
    /\ line' = ln
    /\ success' = r.success
    /\ decoded' = r.offset
    /\ rec' = r.rec
    /\ UNCHANGED << asmVars, stageVars, irq, led >>
    /\ UNCHANGED crcVars

ParseEncoded ==
    \E t \in ParseTuples, upper \in BOOLEAN, prefix \in Prefixes, stack \in Stacks :
      \E ln \in { prefix \o EncodeRecord(t.count, t.addr, t.type, t.payload, upper) } :
        /\ sent' = [kind |-> "encoded", tuple |-> t, upper |-> upper, prefix |-> prefix]
        /\ ParseResult(ln, stack)

ParseRaw ==
    \E ln \in RawLines, stack \in Stacks :
        /\ sent' = Unencoded
        /\ ParseResult(ln, stack)

InitParse ==
    /\ pc = "parse"
    /\ InitRest
    /\ NoCrcCall
    /\ flash = ErasedFlash
    /\ scratch = << ZeroWord, ZeroWord >>

NextParse ==
    \/ ParseEncoded
    \/ ParseRaw

SpecParse == InitParse /\ [][NextParse]_vars

(***************************************************************************)
(* crc32 on its own: byte sequences of up to MaxCrcLen bytes, and the      *)
(* check string "123456789", with several seeds; len is the length of the  *)
(* sequence or 0.                                                          *)
(***************************************************************************)
MaxCrcLen == 3

CrcBytes == { 0, 1, 128, 255 }

RECURSIVE ByteSeqs(_)
ByteSeqs(n) ==
    IF n = 0 THEN { << >> }
    ELSE ByteSeqs(n - 1) \cup { Append(d, b) : d \in ByteSeqs(n - 1), b \in CrcBytes }

CheckString == << 49, 50, 51, 52, 53, 54, 55, 56, 57 >>

\* 0, 0xffffffff, 0x80000000, 1, 0x12345678, 0x04c11db7
CrcSeeds ==
    { ZeroWord, CRC_SEED, << 0, 0, 0, 128 >>, << 1, 0, 0, 0 >>, << 120, 86, 52, 18 >>,
      CRC_POLY }

CrcCalls ==
    { [data |-> d, len |-> n, seed |-> sd] :
        d \in ByteSeqs(MaxCrcLen) \cup { CheckString }, n \in 0..9, sd \in CrcSeeds }

\* result = crc32(data, len, seed)
CrcCall ==
    /\ pc = "crc"
    /\ crcOut' = crc32(crcArgs.data, crcArgs.len, crcArgs.seed)
    /\ pc' = "crc_done"
    /\ UNCHANGED << parseVars, asmVars, stageVars, irq, led, crcArgs >>

InitCrc ==
    /\ pc = "crc"
    /\ InitRest
    /\ flash = ErasedFlash
    /\ scratch = << ZeroWord, ZeroWord >>
    /\ crcArgs \in { c \in CrcCalls : c.len = 0 \/ c.len = Len(c.data) }
    /\ crcOut = << >>

NextCrc == CrcCall

SpecCrc == InitCrc /\ [][NextCrc]_vars

(***************************************************************************)
(* Properties of the staging in flashImage.                                *)
(***************************************************************************)
FlashWord(k) == << flash[k], flash[k + 1], flash[k + 2], flash[k + 3] >>

\* The region presents both header magic values.
RegionMagicValid == FlashWord(0) = FLASH_MAGIC1 /\ FlashWord(4) = FLASH_MAGIC2

\* flash_range_program has returned.
Programmed == pc \in {"fi_restore", "fi_scratch0", "fi_scratch1", "fi_reboot", "fi_wait",
                     "reset"}

\* flash_range_erase has returned.
Erased == pc = "fi_program" \/ Programmed

StagedBytes(buf, len) ==
    FLASH_MAGIC1 \o FLASH_MAGIC2 \o Word32(len)
        \o crc32(Image(buf, len), len, CRC_SEED) \o Image(buf, len)

\* C2: an accepted END-OF-FILE record triggers staging exactly once, with
\* length the cursor at that moment; what is programmed is both magic
\* constants, that length, crc32 of the image with seed 0xFFFFFFFF, and then
\* exactly the length image bytes.
C2_EofStagesCursorBytes ==
    /\ nstaged <= 1
    /\ pc # "loop" =>
          /\ nstaged = 1
          /\ success # 0 /\ rec.type = TYPE_EOF
          /\ length = offset
    /\ Programmed =>
          /\ \A i \in 0..(TotalLength - 1) :
                flash[i] = StagedBytes(buffer, offset)[i + 1]
          /\ \A i \in TotalLength..(EraseLength(TotalLength) - 1) : flash[i] = 255

C2_Witness ==
    /\ pc = "fi_restore"
    /\ nstaged = 1
    /\ offset = 3
    /\ buffer[2] # 0
    /\ flash[HeaderSize + 2] = buffer[2]
    /\ FlashWord(8) = Word32(3)

(***************************************************************************)
(* Properties of the assembly in readIntelHex.                             *)
(***************************************************************************)
\* The step is readIntelHex taking a DATA record.
DataStep ==
    pc = "loop" /\ count' = count + 1 /\ success' # 0 /\ rec'.type = TYPE_DATA

\* The payloads of the DATA records since the cursor was last 0, concatenated.
RECURSIVE Payloads(_)
Payloads(log) ==
    IF log = << >> THEN << >> ELSE Payloads(SubSeq(log, 1, Len(log) - 1)) \o log[Len(log)].data

\* The sum of the payload lengths of the records before record k.
StartOf(log, k) == Len(Payloads(SubSeq(log, 1, k - 1)))

\* C3: a transfer from cursor 0 of DATA records with N payload bytes in all,
\* N not above the capacity, then END-OF-FILE, stages length N, and the
\* buffer's first N bytes are the payloads in arrival order.
C3_StagedLengthIsPayloadTotal ==
    (pc # "loop" /\ Len(Payloads(dlog)) <= BufCap) =>
        /\ length = Len(Payloads(dlog))
        /\ \A i \in 1..Len(Payloads(dlog)) : buffer[i - 1] = Payloads(dlog)[i]

\* C8: every byte of an accepted DATA record lands inside the buffer; the
\* bytes that do not fit before its end are written at its start.
C8_OversizeWrapsInsideBuffer ==
    [][DataStep =>
          /\ oob' = {}
          /\ \A i \in 0..(rec'.count - 1) :
                buffer'[(offset + i) % BufCap] = rec'.data[i + 1]]_vars

\* C9: an accepted DATA record of count bytes at cursor c puts exactly those
\* bytes at the buffer offsets from c on, leaves the other buffer bytes as
\* they were and sets the cursor to (c + count) mod capacity, which is
\* therefore always below the capacity.
C9_DataRecordAtCursor ==
    [][DataStep =>
          /\ \A i \in 0..(rec'.count - 1) :
                offset + i < BufCap /\ buffer'[offset + i] = rec'.data[i + 1]
          /\ \A j \in 0..(BufCap - 1) :
                (j < offset \/ j >= offset + rec'.count) => buffer'[j] = buffer[j]
          /\ offset' = (offset + rec'.count) % BufCap
          /\ offset' \in 0..(BufCap - 1)]_vars

\* The address fields of the logged records increase, their spans do not
\* overlap and lie in the buffer.
SpansInOrder(log) ==
    /\ \A k \in 1..Len(log) : log[k].addr + Len(log[k].data) <= BufCap
    /\ \A k \in 1..(Len(log) - 1) :
          /\ log[k].addr < log[k + 1].addr
          /\ log[k].addr + Len(log[k].data) <= log[k + 1].addr

\* C10 as claimed: DATA records whose address fields o1 < o2 < ... have
\* non-overlapping spans leave each payload at its offset oi in the buffer.
C10_PayloadAtAddressField ==
    (dlog # << >> /\ SpansInOrder(dlog)) =>
        \A k \in 1..Len(dlog) : \A j \in 1..Len(dlog[k].data) :
            buffer[dlog[k].addr + (j - 1)] = dlog[k].data[j]

\* C10 as amended: DATA records taken from cursor 0 on, with at most the
\* capacity in payload bytes in all, leave each payload at the sum of the
\* payload lengths before it, the cursor at which it arrived, whatever its
\* address field says.
C10_PayloadAtRunningCursor ==
    Len(Payloads(dlog)) <= BufCap =>
        \A k \in 1..Len(dlog) :
            /\ dlog[k].at = StartOf(dlog, k) % BufCap
            /\ \A j \in 1..Len(dlog[k].data) :
                  buffer[StartOf(dlog, k) + (j - 1)] = dlog[k].data[j]

C10_Witness ==
    /\ Len(dlog) = 2
    /\ SpansInOrder(dlog)
    /\ dlog[2].addr # StartOf(dlog, 2)
    /\ Len(dlog[2].data) > 0
    /\ buffer[StartOf(dlog, 2)] = dlog[2].data[1]
    /\ buffer[dlog[2].addr] # dlog[2].data[1]

\* C6: a line that fails validation changes nothing: cursor, buffer, header,
\* storage region and handoff words stay as they were and staging is not
\* triggered.
C6_RejectedLineChangesNothing ==
    [][(pc = "loop" /\ success' = 0) =>
          /\ pc' = "loop"
          /\ UNCHANGED << offset, count, buffer, oob, hdr, length, flash, nerased, nprog,
                          scratch, nstaged >>]_vars

\* A data record with its checksum byte one too high has been read after a
\* good one.
C6_Witness ==
    /\ pc = "loop"
    /\ line = LineBadSum
    /\ success = 0
    /\ offset = 1
    /\ buffer[0] = 17

(***************************************************************************)
(* Properties of processRecord.                                            *)
(***************************************************************************)
IsHexDigit(c) == c \in (48..57) \cup (65..70) \cup (97..102)

\* Some character after the start marker is no hex digit.
HasInvalidHex(ln) ==
    \E i \in (SkipToColon(ln) + 1)..Len(ln) : ~IsHexDigit(ln[i])

\* The bytes decoded from the line do not sum to 0 mod 256.
HasNonzeroSum(ln) ==
    /\ SkipToColon(ln) <= Len(ln)
    /\ SumBytes(DecodeLoop(ln, SkipToColon(ln) + 1)) # 0

\* C4: processRecord returns 0 for every line whose decoded bytes have a
\* nonzero sum and for every line with invalid hex in its record body.
C4_RejectsBadSumAndBadHex ==
    (pc = "parsed" /\ (HasNonzeroSum(line) \/ HasInvalidHex(line))) => success = 0

\* C5: a line that decodes to fewer bytes than its count field requires
\* (count + 5) is never accepted.
C5_TruncatedLineRejected ==
    (pc = "parsed" /\ success # 0) => decoded >= rec.count + 5

\* C7: a tuple encoded as ':' and the hex of count, address, type, payload and
\* checksum, with or without text before the ':', is accepted and gives back
\* count, address, type and the count payload bytes.
C7_EncodeParseRoundTrip ==
    (pc = "parsed" /\ sent.kind = "encoded") =>
        /\ line = sent.prefix \o EncodeRecord(sent.tuple.count, sent.tuple.addr,
                                              sent.tuple.type, sent.tuple.payload,
                                              sent.upper)
        /\ success # 0
        /\ rec.count = sent.tuple.count
        /\ rec.addr = sent.tuple.addr
        /\ rec.type = sent.tuple.type
        /\ rec.data = sent.tuple.payload

C7_Witness ==
    /\ pc = "parsed"
    /\ sent.kind = "encoded"
    /\ sent.tuple.count = 255
    /\ sent.tuple.addr = 4660
    /\ sent.prefix # << >>
    /\ ~sent.upper
    /\ success # 0
    /\ rec.addr = 4660
    /\ rec.data[255] = sent.tuple.payload[255]

(***************************************************************************)
(* Properties of the record types in readIntelHex.                         *)
(***************************************************************************)
\* The step is the main path in the record loop (the timer callback is the
\* only other step, and the only one that changes the LED).
LoopStep == pc = "loop" /\ led' = led

\* The step is readIntelHex taking the line ":0300300002337A1E".
ExampleStep == LoopStep /\ line' = LineData3

\* C11 as claimed: the line ":0300300002337A1E" is accepted by processRecord
\* and taken by readIntelHex as an EXTENDED-SEGMENT-ADDRESS record, which it
\* ignores: cursor and buffer are unchanged afterwards.
C11_ExampleLineIgnoredAsExtSeg ==
    [][ExampleStep =>
          /\ success' # 0
          /\ rec'.type = TYPE_EXTSEG
          /\ offset' = offset
          /\ buffer' = buffer]_vars

\* C11 as amended: the line is accepted, and its fourth byte, the type, is
\* 00: it is a DATA record of count 3 for address 0x0030 with the payload
\* 02 33 7A.  readIntelHex copies the payload to the cursor and advances the
\* cursor by 3 modulo the capacity.
C11_ExampleLineIsDataRecord ==
    [][ExampleStep =>
          /\ success' # 0
          /\ rec'.count = 3
          /\ rec'.addr = 48
          /\ rec'.type = TYPE_DATA
          /\ rec'.data = << 2, 51, 122 >>
          /\ \A i \in 0..2 : offset + i < BufCap => buffer'[offset + i] = rec'.data[i + 1]
          /\ offset' = (offset + 3) % BufCap
          /\ count' = count + 1
          /\ pc' = "loop"]_vars

C11_Witness ==
    /\ line = LineData3
    /\ success # 0
    /\ rec.type = TYPE_DATA
    /\ rec.addr = 48
    /\ count = 1
    /\ offset = 3
    /\ buffer[0] = 2 /\ buffer[1] = 51 /\ buffer[2] = 122

\* The step is readIntelHex taking an accepted record of type t.
TakesType(t) == LoopStep /\ success' # 0 /\ rec'.type = t

\* C12: an accepted EXTENDED-LINEAR-ADDRESS record sets the cursor to 0 from
\* any prior cursor value, leaves every buffer byte (and the memory behind the
\* buffer) unchanged and does not trigger staging.
C12_ExtLinResetsCursor ==
    [][TakesType(TYPE_EXTLIN) =>
          /\ offset' = 0
          /\ buffer' = buffer
          /\ oob' = oob
          /\ pc' = "loop"
          /\ UNCHANGED << hdr, length, flash, nerased, nprog, scratch, nstaged >>]_vars

\* The cursor was 3 when the record arrived; the bytes received stay.
C12_Witness ==
    /\ line = LineExtLin
    /\ success # 0
    /\ rec.type = TYPE_EXTLIN
    /\ count = 2
    /\ offset = 0
    /\ buffer[2] = 122
    /\ pc = "loop"

\* The types readIntelHex has no case for, or an empty one.
IgnoredTypes == { TYPE_EXTSEG, TYPE_STARTSEG, TYPE_STARTLIN } \cup (6..255)

\* C13: accepted records of type EXTENDED-SEGMENT-ADDRESS, START-SEGMENT-
\* ADDRESS, START-LINEAR-ADDRESS and of any unrecognized type (0x06..0xFF) are
\* ignored: cursor, buffer, storage region and handoff words are unchanged
\* and staging is not triggered, whatever count, address and payload are.
C13_OtherTypesIgnored ==
    [][(LoopStep /\ success' # 0 /\ rec'.type \in IgnoredTypes) =>
          /\ pc' = "loop"
          /\ count' = count + 1
          /\ UNCHANGED << offset, buffer, oob, hdr, length, flash, nerased, nprog, scratch,
                          nstaged >>]_vars

\* A record of an unrecognized type with 255 payload bytes was taken at
\* cursor 2, after a record of type START-LINEAR-ADDRESS.
C13_Witness ==
    /\ pc = "loop"
    /\ count = 3
    /\ success # 0
    /\ rec.type = 128
    /\ rec.count = 255
    /\ rec.addr = 4660
    /\ offset = 2
    /\ buffer = [i \in 0..(BufCap - 1) |-> IF i = 0 THEN 51 ELSE IF i = 1 THEN 68 ELSE 0]
    /\ oob = {}

(***************************************************************************)
(* Properties of the handoff and of the order of the steps of flashImage.  *)
(***************************************************************************)
\* The image bytes the region holds behind its header, len of them.
FlashImageBytes(len) == [i \in 1..len |-> flash[HeaderSize + (i - 1)]]

\* The region holds a header whose length and CRC match the image after it.
RegionHeaderValid ==
    /\ RegionMagicValid
    /\ FlashWord(8) = Word32(length)
    /\ FlashWord(12) = crc32(FlashImageBytes(length), length, CRC_SEED)

\* C14: whenever the program has made handoff word 0 equal to the shared
\* magic, handoff word 1 is the absolute address of the region (XIP base +
\* image offset) and the region holds a header whose length and CRC match the
\* image programmed after it; the handoff words are not written before an
\* END-OF-FILE record has been accepted and programming has completed.
C14_HandoffWordsTrustworthy ==
    /\ scratch[1] = FLASH_MAGIC1 =>
          /\ scratch[2] = IMAGE_ADDRESS
          /\ RegionHeaderValid
    /\ scratch # << ZeroWord, ZeroWord >> =>
          /\ Programmed
          /\ nstaged = 1
          /\ rec.type = TYPE_EOF

\* The steps of flashImage, told by what they change.
PopulateStep == hdr' # hdr
DisableStep  == irq /\ ~irq'
EraseStep    == nerased' > nerased
ProgramStep  == nprog' > nprog
RestoreStep  == ~irq /\ irq'
HandoffStep  == scratch' # scratch
RebootStep   == pc = "fi_reboot" /\ pc' # pc

\* C15: on every execution of flashImage the header fields are populated,
\* then interrupts are disabled, the region is erased, header and image are
\* programmed as one contiguous ascending write, interrupts are re-enabled,
\* the handoff words are written and the reset is issued; program never
\* precedes erase, handoff words and reset never precede the end of program.
C15_StagingStepsInOrder ==
    [][/\ PopulateStep =>
             /\ irq /\ nerased = 0 /\ nprog = 0
             /\ scratch = << ZeroWord, ZeroWord >>
       /\ DisableStep => hdr = PopulatedHeader /\ nerased = 0 /\ nprog = 0
       /\ EraseStep =>
             /\ ~irq /\ hdr = PopulatedHeader /\ nprog = 0
             /\ nerased < EraseLength(TotalLength)
       /\ ProgramStep =>
             /\ ~irq /\ hdr = PopulatedHeader
             /\ nerased >= EraseLength(TotalLength)
             /\ nprog < TotalLength /\ nprog' <= TotalLength
             /\ \A i \in 0..(nprog' - 1) : flash'[i] = SrcByte(i)
             /\ \A i \in nprog'..(EraseLength(TotalLength) - 1) : flash'[i] = 255
       /\ RestoreStep => nprog = TotalLength /\ scratch = << ZeroWord, ZeroWord >>
       /\ HandoffStep => irq /\ Programmed /\ nprog = TotalLength
       /\ RebootStep =>
             /\ irq /\ nprog = TotalLength
             /\ scratch = << FLASH_MAGIC1, IMAGE_ADDRESS >>
             /\ pc' = "fi_wait"
      ]_vars

\* The reset has been issued for an image of three bytes.
C15_Witness ==
    /\ pc = "fi_wait"
    /\ length = 3
    /\ hdr = PopulatedHeader
    /\ irq
    /\ nerased = EraseLength(TotalLength)
    /\ nprog = TotalLength
    /\ flash[HeaderSize + 2] = buffer[2]
    /\ scratch = << FLASH_MAGIC1, IMAGE_ADDRESS >>

\* watchdog_reboot has been called.
ResetIssued == pc \in {"fi_wait", "reset"}

\* C16: once an END-OF-FILE record has been accepted, the reset is
\* eventually issued (the main path being scheduled fairly), flashImage
\* never returns to the record loop, no further line is read and cursor and
\* buffer do not change any more.
C16_StagingIsTerminal ==
    /\ (nstaged = 1) ~> ResetIssued
    /\ [][pc # "loop" =>
             /\ pc' # "loop"
             /\ UNCHANGED << line, success, decoded, rec, sent, offset, count, buffer,
                             oob, length, nstaged >>]_vars

\* The watchdog has fired after a transfer of two data records and EOF.
C16_Witness ==
    /\ pc = "reset"
    /\ nstaged = 1
    /\ count = 3
    /\ rec.type = TYPE_EOF
    /\ offset = 3
    /\ scratch = << FLASH_MAGIC1, IMAGE_ADDRESS >>

(***************************************************************************)
(* Properties of crc32.  The reference works on the 32 bits of the value,  *)
(* most significant first.                                                 *)
(***************************************************************************)
ByteBits(n) ==
    << (n \div 128) % 2, (n \div 64) % 2, (n \div 32) % 2, (n \div 16) % 2,
       (n \div 8) % 2, (n \div 4) % 2, (n \div 2) % 2, n % 2 >>

WordBits(w) == ByteBits(w[4]) \o ByteBits(w[3]) \o ByteBits(w[2]) \o ByteBits(w[1])

\* 0x04C11DB7 = 0000 0100 1100 0001 0001 1101 1011 0111
PolyBits ==
    << 0,0,0,0, 0,1,0,0, 1,1,0,0, 0,0,0,1, 0,0,0,1, 1,1,0,1, 1,0,1,1, 0,1,1,1 >>

RECURSIVE XorBits(_, _)
XorBits(a, b) ==
    IF a = << >> THEN << >>
    ELSE << (Head(a) + Head(b)) % 2 >> \o XorBits(Tail(a), Tail(b))

ShiftLeftBits(b) == Tail(b) \o << 0 >>

RefRound(b) ==
    IF b[1] = 1 THEN XorBits(ShiftLeftBits(b), PolyBits) ELSE ShiftLeftBits(b)

RECURSIVE RefRounds(_, _)
RefRounds(b, n) ==
    IF n = 0 THEN b
    ELSE CHOOSE r \in { RefRounds(RefRound(v), n - 1) : v \in {b} } : TRUE

RECURSIVE RefCrc(_, _)
RefCrc(data, b) ==
    IF data = << >> THEN b
    ELSE CHOOSE r \in { RefCrc(Tail(data),
                               RefRounds(XorBits(SubSeq(v, 1, 8), ByteBits(Head(data)))
                                             \o SubSeq(v, 9, 32), 8)) :
                         v \in {b} } : TRUE

\* C17: crc32(data, len, seed) is the MSB-first bitwise CRC of the first len
\* bytes: per byte, the byte is XORed into bits 31..24, then eight rounds of
\* shift left by one, XORing 0x04C11DB7 when bit 31 was set; 32 bits, no
\* reflection, no final XOR.  An empty range returns the seed.
C17_CrcIsReferenceCrc ==
    pc = "crc_done" =>
        /\ Len(crcOut) = 4
        /\ \A k \in 1..4 : crcOut[k] \in 0..255
        /\ WordBits(crcOut) =
              RefCrc(SubSeq(crcArgs.data, 1, crcArgs.len), WordBits(crcArgs.seed))
        /\ crcArgs.len = 0 => crcOut = crcArgs.seed

\* The check value of CRC-32/MPEG-2: "123456789" with seed 0xFFFFFFFF gives
\* 0x0376E6E7.
C17_Witness ==
    /\ pc = "crc_done"
    /\ crcArgs.data = CheckString
    /\ crcArgs.len = 9
    /\ crcArgs.seed = CRC_SEED
    /\ crcOut = << 231, 230, 118, 3 >>

(***************************************************************************)
(* Properties of the hex decoding.                                         *)
(***************************************************************************)
\* Pair k (from 0) after the start marker at position p is two hex digits.
IsHexPair(ln, p, k) ==
    IsHexDigit(CharAt(ln, p + 1 + 2 * k)) /\ IsHexDigit(CharAt(ln, p + 2 + 2 * k))

\* The number of pairs of hex digits at the start of the record body, the
\* size of the decode buffer at most; 0 for a line without start marker.
LeadingHexPairs(ln) ==
    LET p   == SkipToColon(ln)
        bad == { k \in 0..(DATA_SIZE - 1) : ~IsHexPair(ln, p, k) }
    IN  IF p > Len(ln) THEN 0
        ELSE IF bad = {} THEN DATA_SIZE
        ELSE CHOOSE k \in bad : \A j \in bad : k <= j

\* C18: parseHex succeeds on a pair exactly if both characters are in
\* '0'-'9', 'a'-'f', 'A'-'F'; a pair with any other character ('g'-'z',
\* 'G'-'Z' and the terminator included) is invalid and the decode loop of
\* processRecord stops at the first such pair: it stores as many bytes as
\* the record body has leading pairs of hex digits.
C18_DecodesExactlyHexDigits ==
    pc = "parsed" =>
        /\ decoded = LeadingHexPairs(line)
        /\ \A k \in 0..(decoded - 1) :
              parseHex(line, SkipToColon(line) + 1 + 2 * k).success # 0
                  <=> IsHexPair(line, SkipToColon(line), k)

\* C19: for every line, the decode loop of processRecord writes only the
\* indices 0..260 of its 261-byte buffer (the bytes stored are those at the
\* indices below the final offset), and the payload copy reads only indices
\* within 4..259 of it and writes at most 255 bytes into the record's
\* payload array.
C19_DecodeBufferBound ==
    pc = "parsed" =>
        /\ decoded \in 0..DATA_SIZE
        /\ \A i \in 0..(decoded - 1) : i \in 0..260
        /\ success # 0 =>
              /\ rec.count \in 0..255
              /\ \A i \in 4..(4 + rec.count - 1) : i \in 4..259
              /\ Len(rec.data) = rec.count
              /\ Len(rec.data) <= 255

\* A line of 301 pairs: the loop has filled the buffer and stopped, the
\* record has the largest count.
C19_Witness ==
    /\ pc = "parsed"
    /\ line = LineOverlong
    /\ Len(line) = 1 + 2 * 301
    /\ decoded = DATA_SIZE
    /\ success # 0
    /\ rec.count = 255
    /\ Len(rec.data) = 255

(***************************************************************************)
(* Properties of the heartbeat.                                            *)
(***************************************************************************)
\* The step is the timer callback: nothing else drives the LED.
HeartbeatStep == led' # led

\* From the start of the erase to the end of the program step (interrupts
\* are restored only after it).
InCriticalSection == pc \in {"fi_erase", "fi_program", "fi_restore"}

\* C20: in every interleaving the timer callback never runs between the
\* start of the erase and the end of the program step, and where it runs it
\* changes nothing but the LED: cursor, buffer, header, storage region and
\* handoff words, and where the main path stands, are as they would be
\* without it.
C20_HeartbeatDoesNotInterfere ==
    /\ [](InCriticalSection => ~irq)
    /\ [][HeartbeatStep =>
             /\ irq
             /\ ~InCriticalSection
             /\ UNCHANGED << pc, line, success, decoded, rec, offset, count, buffer, oob,
                             hdr, length, irq, flash, nerased, nprog, scratch, nstaged >>]_vars

\* The LED was toggled before interrupts were disabled; the programming is
\* under way.
C20_Witness ==
    /\ pc = "fi_program"
    /\ ~irq
    /\ led
    /\ nprog > 0
    /\ length = 3

=============================================================================
